---- MODULE Spec2Model ----
(***************************************************************************)
(* Model of persepolis/scripts/progress.py: the progress window of one     *)
(* download (gid) and the ShutDownThread it starts.  The window's handlers *)
(* are the actions; every call a handler makes to a collaborator (the      *)
(* download module, notifySend, the parent window) is recorded, in order,  *)
(* in calls.                                                               *)
(***************************************************************************)
EXTENDS Integers, Sequences, FiniteSets, TLC

\* ---------------------------------------------------------------- bounds
MaxThreads == 2      \* ShutDownThreads the model lets the window append
MaxAttempts == 2     \* password dialogs answered within one button press
MaxSpin == 1         \* largest value of limit_spinBox

\* ---------------------------------------------------------------- values
PyNone == "None"                 \* Python's None
PyFalse == "False"               \* Python's False
StrNone == "'None'"              \* the Python string 'None'
Answered == "OK"                 \* a truthy answer of aria2

DownloadStatuses == {"scheduled", "downloading", "paused", "complete", "stopped"}

DidNotRespond == "did not respond"
VersionAnswers == {DidNotRespond, "1.36.0"}

RootPassword == "root"
Passwords == {RootPassword, "wrong"}
OsTypes == {"Linux", "Windows"}
WINDOWS == "Windows"

Units == {"K", "M"}
LimitZero == [number |-> 0, unit |-> ""]                \* the limit '0'
LimitValues == {LimitZero} \cup [number : 1..MaxSpin, unit : Units]

VARIABLES
    os_type,            \* platform.system()
    status,             \* ProgressWindow.status
    dl,                 \* the status of the download itself
    limit_checkBox, limit_frame, limit_pushButton,
    limit_spinBox, limit_comboBox,
    after_checkBox, after_frame, after_pushButton, after_comboBox,
    add_link_limit,     \* limit_value of the gid in the add-link table
    aria2_limit,        \* the limit aria2 was last told for the gid
    temp_db_shutdown,   \* 'shutdown' of the gid in temp_db's single table
    threadPool,         \* parent.threadPool: the ShutDownThreads appended
    system_shut_down,   \* shutDown has shut the system down
    cancel_requested,   \* the user unchecked after_checkBox since the last apply
    lastOp,             \* the handler or step that ran last
    calls,              \* the calls it made, in order
    answer,             \* its local answer
    version_answer      \* its local version_answer

widgets == <<limit_checkBox, limit_frame, limit_pushButton, limit_spinBox,
             limit_comboBox, after_checkBox, after_frame, after_pushButton,
             after_comboBox>>
limitWidgets == <<limit_checkBox, limit_frame, limit_pushButton, limit_spinBox,
                  limit_comboBox>>
afterWidgets == <<after_checkBox, after_frame, after_pushButton, after_comboBox>>
stores == <<add_link_limit, aria2_limit, temp_db_shutdown, threadPool,
            system_shut_down, cancel_requested>>
vars == <<os_type, status, dl, widgets, stores, lastOp, calls, answer,
          version_answer>>

Unset == "unset"

\* what every step records about itself
Ran(op, c, a, v) ==
    /\ lastOp' = op
    /\ calls' = c
    /\ answer' = a
    /\ version_answer' = v

Count(s, x) == Cardinality({i \in DOMAIN s : s[i] = x})

\* Python's not(answer)
Not(a) == a \in {PyNone, PyFalse}

\* ------------------------------------------------------------- __init__
Init ==
    /\ os_type \in OsTypes
    /\ status = PyNone
    /\ dl \in DownloadStatuses
    /\ add_link_limit \in LimitValues
    /\ limit_spinBox = IF add_link_limit # LimitZero THEN add_link_limit.number ELSE 0
    /\ limit_comboBox = "KiB/s"
    /\ after_comboBox = IF add_link_limit # LimitZero /\ add_link_limit.unit # "K"
                        THEN 1 ELSE 0
    /\ limit_checkBox = (add_link_limit # LimitZero)
    /\ limit_frame = (add_link_limit # LimitZero)
    /\ limit_pushButton = TRUE
    /\ after_checkBox = FALSE
    /\ after_frame = FALSE
    /\ after_pushButton = TRUE
    /\ aria2_limit = LimitZero
    /\ temp_db_shutdown = "NULL"
    /\ threadPool = <<>>
    /\ system_shut_down = FALSE
    /\ cancel_requested = FALSE
    /\ lastOp = "__init__"
    /\ calls = <<>>
    /\ answer = Unset
    /\ version_answer = Unset

\* ------------------------------------------------- resume / pause / stop
\* a press that issues downloadUnpause whatever the status is
resumeCallsAnyStatus(a, v) ==
    <<"downloadUnpause">> \o
    (IF Not(a)
     THEN <<"aria2Version">> \o
          (IF v = DidNotRespond
           THEN <<"aria2Disconnected", "notifySend">>
           ELSE <<"notifySend">>)
     ELSE <<>>)

resumeCalls(a, v) ==
    IF status = "paused"
    THEN <<"downloadUnpause">> \o
         (IF Not(a)
          THEN <<"aria2Version">> \o
               (IF v = DidNotRespond
                THEN <<"aria2Disconnected", "notifySend">>
                ELSE <<"notifySend">>)
          ELSE <<>>)
    ELSE <<>>

\* the locals a handler leaves behind: answer once the request was made,
\* version_answer once aria2Version was called
locals(c, a, v) ==
    [answer |-> IF c # <<>> THEN a ELSE Unset,
     version_answer |-> IF Count(c, "aria2Version") > 0 THEN v ELSE Unset]

resumePushButtonPressed ==
    \E a \in {Answered, PyNone, PyFalse}, v \in VersionAnswers :
        LET c == resumeCalls(a, v) IN
        /\ Ran("resume", c, locals(c, a, v).answer, locals(c, a, v).version_answer)
        /\ UNCHANGED <<os_type, status, dl, widgets, stores>>

pauseCalls(a, v) ==
    IF status = "downloading"
    THEN <<"downloadPause">> \o
         (IF Not(a)
          THEN <<"aria2Version">> \o
               (IF v = DidNotRespond
                THEN <<"aria2Disconnected", "downloadStop", "notifySend">>
                ELSE <<"notifySend">>)
          ELSE <<>>)
    ELSE <<>>

pausePushButtonPressed ==
    \E a \in {Answered, PyNone, PyFalse}, v \in VersionAnswers :
        LET c == pauseCalls(a, v) IN
        /\ Ran("pause", c, locals(c, a, v).answer, locals(c, a, v).version_answer)
        /\ UNCHANGED <<os_type, status, dl, widgets, stores>>

\* what downloadStop can return: an answer, or one of its no-response values
StopAnswers == {Answered, PyNone, PyFalse, StrNone}
StopNoResponse == {PyNone, PyFalse, StrNone}

stopCalls(a, v) ==
    <<"updateSingleTable", "downloadStop">> \o
    (IF a = StrNone
     THEN <<"aria2Version">> \o
          (IF v = DidNotRespond
           THEN <<"aria2Disconnected", "notifySend">>
           ELSE <<>>)
     ELSE <<>>)

stopPushButtonPressed ==
    \E a \in StopAnswers, v \in VersionAnswers :
        /\ temp_db_shutdown' = "canceled"
        /\ Ran("stop", stopCalls(a, v), a,
               locals(stopCalls(a, v), a, v).version_answer)
        /\ UNCHANGED <<os_type, status, dl, widgets, add_link_limit, aria2_limit,
                       threadPool, system_shut_down, cancel_requested>>

\* ------------------------------------------------------------ speed limit
\* the status test both limit handlers make before choosing where a limit goes
limitGoesToAria2 == status # "scheduled"

\* download.limitSpeed(gid, value) or persepolis_db.updateAddLinkTable([...])
sendLimit(value, op) ==
    IF limitGoesToAria2
    THEN /\ aria2_limit' = value
         /\ UNCHANGED add_link_limit
         /\ Ran(op, <<"limitSpeed">>, Unset, Unset)
    ELSE /\ add_link_limit' = value
         /\ UNCHANGED aria2_limit
         /\ Ran(op, <<"updateAddLinkTable">>, Unset, Unset)

limitCheckBoxToggled ==
    /\ limit_checkBox' = ~limit_checkBox
    /\ IF limit_checkBox'
       THEN /\ limit_frame' = TRUE
            /\ limit_pushButton' = TRUE
            /\ Ran("limitCheckBoxToggled", <<>>, Unset, Unset)
            /\ UNCHANGED <<add_link_limit, aria2_limit>>
       ELSE /\ limit_frame' = FALSE
            /\ UNCHANGED limit_pushButton
            /\ sendLimit(LimitZero, "limitCheckBoxToggled")
    /\ UNCHANGED <<os_type, status, dl, limit_spinBox, limit_comboBox,
                   afterWidgets, temp_db_shutdown, threadPool,
                   system_shut_down, cancel_requested>>

\* the user edits limit_spinBox or limit_comboBox (widgets of limit_frame)
limitComboBoxChanged ==
    /\ limit_frame
    /\ \E n \in 0..MaxSpin, u \in {"KiB/s", "MiB/s"} :
          /\ <<n, u>> # <<limit_spinBox, limit_comboBox>>
          /\ limit_spinBox' = n
          /\ limit_comboBox' = u
    /\ limit_pushButton' = TRUE
    /\ Ran("limitComboBoxChanged", <<>>, Unset, Unset)
    /\ UNCHANGED <<os_type, status, dl, limit_checkBox, limit_frame,
                   afterWidgets, stores>>

\* str(limit_spinBox.value()) + 'K' or + 'M'
limitValue ==
    [number |-> limit_spinBox,
     unit |-> IF limit_comboBox = "KiB/s" THEN "K" ELSE "M"]

limitPushButtonPressed ==
    /\ limit_frame
    /\ limit_pushButton
    /\ limit_pushButton' = FALSE
    /\ sendLimit(limitValue, "limitPushButtonPressed")
    /\ UNCHANGED <<os_type, status, dl, limit_checkBox, limit_frame,
                   limit_spinBox, limit_comboBox, afterWidgets,
                   temp_db_shutdown, threadPool, system_shut_down,
                   cancel_requested>>

\* ------------------------------------------------- shutdown after download
afterComboBoxChanged ==
    /\ after_frame
    /\ after_comboBox' = 1 - after_comboBox
    /\ after_pushButton' = TRUE
    /\ Ran("afterComboBoxChanged", <<>>, Unset, Unset)
    /\ UNCHANGED <<os_type, status, dl, limitWidgets, after_checkBox,
                   after_frame, stores>>

\* the user toggles after_checkBox
afterCheckBoxToggled ==
    /\ after_checkBox' = ~after_checkBox
    /\ IF after_checkBox'
       THEN /\ after_frame' = TRUE
            /\ Ran("afterCheckBoxToggled", <<>>, Unset, Unset)
            /\ UNCHANGED <<temp_db_shutdown, cancel_requested>>
       ELSE /\ after_frame' = FALSE
            /\ temp_db_shutdown' = "canceled"
            /\ cancel_requested' = TRUE
            /\ Ran("afterCheckBoxToggled", <<"updateSingleTable">>, Unset, Unset)
    /\ UNCHANGED <<os_type, status, dl, limitWidgets, after_pushButton,
                   after_comboBox, add_link_limit, aria2_limit, threadPool,
                   system_shut_down>>

\* sudo -S echo hello: the exit status for a password
sudo(passwd) == IF passwd = RootPassword THEN 0 ELSE 1

\* the "Wrong password" loop over the dialogs the user still answers;
\* pending: the loop is still asking when the answers run out
RECURSIVE wrongPassword(_, _, _)
wrongPassword(passwd, exit, dialogs) ==
    IF exit = 0
    THEN [ok |-> TRUE, passwd |-> passwd, pending |-> FALSE, left |-> Len(dialogs)]
    ELSE IF dialogs = <<>>
    THEN [ok |-> TRUE, passwd |-> passwd, pending |-> TRUE, left |-> 0]
    ELSE IF Head(dialogs).ok
    THEN wrongPassword(Head(dialogs).passwd, sudo(Head(dialogs).passwd),
                       Tail(dialogs))
    ELSE [ok |-> FALSE, passwd |-> Head(dialogs).passwd, pending |-> FALSE,
          left |-> Len(dialogs) - 1]

\* "get root password": the dialogs of one press, first to last
getPassword(dialogs) ==
    IF Head(dialogs).ok
    THEN wrongPassword(Head(dialogs).passwd, sudo(Head(dialogs).passwd),
                       Tail(dialogs))
    ELSE [ok |-> FALSE, passwd |-> Head(dialogs).passwd, pending |-> FALSE,
          left |-> Len(dialogs) - 1]

Dialogs == UNION {[1..n -> [passwd : Passwords, ok : BOOLEAN]] : n \in 1..MaxAttempts}

ShutDownThread(passwd) == [gid |-> "gid", password |-> passwd, pc |-> "started"]

\* shutdown_enable = ShutDownThread(...); threadPool.append(...); [-1].start()
startShutDownThread(passwd) ==
    /\ threadPool' = Append(threadPool, ShutDownThread(passwd))
    /\ cancel_requested' = FALSE
    /\ UNCHANGED <<after_checkBox, after_frame, temp_db_shutdown>>

\* after_checkBox.setChecked(False), which runs afterCheckBoxToggled if it changes
uncheckAfterCheckBox ==
    /\ after_checkBox' = FALSE
    /\ IF after_checkBox
       THEN /\ after_frame' = FALSE
            /\ temp_db_shutdown' = "canceled"
       ELSE UNCHANGED <<after_frame, temp_db_shutdown>>
    /\ UNCHANGED <<threadPool, cancel_requested>>

afterPushButtonPressed ==
    /\ after_frame
    /\ after_pushButton
    /\ Len(threadPool) < MaxThreads
    /\ after_pushButton' = FALSE
    /\ IF os_type # WINDOWS
       THEN \E dialogs \in Dialogs :
              LET r == getPassword(dialogs) IN
              /\ ~r.pending
              /\ r.left = 0
              /\ IF r.ok
                 THEN /\ startShutDownThread(r.passwd)
                      /\ Ran("afterPushButtonPressed", <<"start">>, Unset, Unset)
                 ELSE /\ uncheckAfterCheckBox
                      /\ Ran("afterPushButtonPressed", <<"updateSingleTable">>,
                             Unset, Unset)
       ELSE /\ startShutDownThread(PyNone)
            /\ Ran("afterPushButtonPressed", <<"start">>, Unset, Unset)
    /\ UNCHANGED <<os_type, status, dl, limitWidgets, after_comboBox,
                   add_link_limit, aria2_limit, system_shut_down>>

\* ---------------------------------------------------------- ShutDownThread
\* run() enters shutDown, which writes "wait" for the gid
shutDownBegin ==
    \E i \in DOMAIN threadPool :
        /\ threadPool[i].pc = "started"
        /\ threadPool' = [threadPool EXCEPT ![i].pc = "waiting"]
        /\ temp_db_shutdown' = "wait"
        /\ Ran("shutDownBegin", <<"updateSingleTable">>, Unset, Unset)
        /\ UNCHANGED <<os_type, status, dl, widgets, add_link_limit,
                       aria2_limit, system_shut_down, cancel_requested>>

\* shutDown's loop sees the value leave "wait": it shuts the system down on
\* "shutdown" and returns on anything else
shutDownEnd ==
    \E i \in DOMAIN threadPool :
        /\ threadPool[i].pc = "waiting"
        /\ temp_db_shutdown # "wait"
        /\ threadPool' = [threadPool EXCEPT ![i].pc = "finished"]
        /\ system_shut_down' = (system_shut_down \/ temp_db_shutdown = "shutdown")
        /\ Ran("shutDownEnd", <<>>, Unset, Unset)
        /\ UNCHANGED <<os_type, status, dl, widgets, add_link_limit,
                       aria2_limit, temp_db_shutdown, cancel_requested>>

\* ------------------------------------------------------------- main window
\* the main window reports the download's status to the window
statusReported ==
    \E s \in DownloadStatuses :
        /\ <<s, s>> # <<dl, status>>
        /\ dl' = s
        /\ status' = s
        /\ Ran("statusReported", <<>>, Unset, Unset)
        /\ UNCHANGED <<os_type, widgets, stores>>

\* the download is complete while its 'shutdown' value is "wait":
\* "wait" changes to "shutdown"
downloadCompleted ==
    /\ dl = "complete"
    /\ temp_db_shutdown = "wait"
    /\ temp_db_shutdown' = "shutdown"
    /\ Ran("downloadCompleted", <<"updateSingleTable">>, Unset, Unset)
    /\ UNCHANGED <<os_type, status, dl, widgets, add_link_limit, aria2_limit,
                   threadPool, system_shut_down, cancel_requested>>

Next ==
    \/ resumePushButtonPressed
    \/ pausePushButtonPressed
    \/ stopPushButtonPressed
    \/ limitCheckBoxToggled
    \/ limitComboBoxChanged
    \/ limitPushButtonPressed
    \/ afterComboBoxChanged
    \/ afterCheckBoxToggled
    \/ afterPushButtonPressed
    \/ shutDownBegin
    \/ shutDownEnd
    \/ statusReported
    \/ downloadCompleted

Spec == Init /\ [][Next]_vars

\* Spec is the whole window.  Its handlers fall into three groups that share
\* only status (read by all) and temp_db's 'shutdown' value (written by stop
\* and by the shutdown group), so the reachable states of Spec are the product
\* of the groups' states.  The properties of a group are checked under the
\* specification of that group: its handlers, with the steps of the main
\* window and of the threads that act on what the group reads.

\* resume, pause and stop
NextControl ==
    \/ resumePushButtonPressed
    \/ pausePushButtonPressed
    \/ stopPushButtonPressed
    \/ statusReported

SpecControl == Init /\ [][NextControl]_vars

\* the speed limit
NextLimit ==
    \/ limitCheckBoxToggled
    \/ limitComboBoxChanged
    \/ limitPushButtonPressed
    \/ statusReported

SpecLimit == Init /\ [][NextLimit]_vars

\* shutdown after download
NextShutdown ==
    \/ afterComboBoxChanged
    \/ afterCheckBoxToggled
    \/ afterPushButtonPressed
    \/ stopPushButtonPressed
    \/ shutDownBegin
    \/ shutDownEnd
    \/ statusReported
    \/ downloadCompleted

SpecShutdown == Init /\ [][NextShutdown]_vars

\* ------------------------------------------------------------ properties
controlState == <<os_type, status, dl, widgets, stores>>

\* C1: at most one ShutDownThread is ever appended to parent.threadPool and
\* started for the window's gid, whatever the user does with after_checkBox,
\* after_comboBox and after_pushButton.
AtMostOneShutDownThread == Len(threadPool) <= 1

\* C2: once the user has cancelled by unchecking after_checkBox, the
\* 'shutdown' value of the gid in temp_db is 'canceled' and stays so until the
\* user applies shutdown again, whenever an earlier ShutDownThread runs.
CanceledStaysCanceled == cancel_requested => temp_db_shutdown = "canceled"

\* the download was started before: it has left 'scheduled'
started == dl # "scheduled"

\* the last step changed the speed limit
limitChanged ==
    \/ lastOp = "limitPushButtonPressed"
    \/ lastOp = "limitCheckBoxToggled" /\ ~limit_checkBox

\* C3: every speed-limit change is sent to aria2 with limitSpeed if the
\* download was started before and is otherwise saved in the add-link table,
\* exactly one of the two, for every status of the window, None included.
LimitSentIfStartedElseSaved ==
    limitChanged =>
        /\ Count(calls, "limitSpeed") + Count(calls, "updateAddLinkTable") = 1
        /\ Count(calls, "limitSpeed") = 1 <=> started

\* The part of C3 that does not depend on what the window knows: a limit
\* change makes exactly one of the two calls.
LimitSentOrSaved ==
    limitChanged =>
        Count(calls, "limitSpeed") + Count(calls, "updateAddLinkTable") = 1

\* C4: resume issues downloadUnpause iff the status is 'paused', pause issues
\* downloadPause iff the status is 'downloading'; in every other status the
\* press makes no call at all and changes no state.
ResumePauseOnlyInTheirStatus ==
    /\ [](lastOp = "resume" =>
            /\ Count(calls, "downloadUnpause") = (IF status = "paused" THEN 1 ELSE 0)
            /\ status # "paused" => calls = <<>>)
    /\ [](lastOp = "pause" =>
            /\ Count(calls, "downloadPause") = (IF status = "downloading" THEN 1 ELSE 0)
            /\ status # "downloading" => calls = <<>>)
    /\ [][(\/ lastOp' = "resume" /\ status # "paused"
           \/ lastOp' = "pause" /\ status # "downloading")
          => UNCHANGED controlState]_vars

\* a resume press in status 'paused' that aria2 did not answer
ResumePressedWhilePaused ==
    /\ lastOp = "resume"
    /\ status = "paused"
    /\ calls = <<"downloadUnpause", "aria2Version", "aria2Disconnected", "notifySend">>

\* the request of the last handler got no response
noResponse ==
    \/ lastOp \in {"resume", "pause"} /\ answer \in {PyNone, PyFalse}
    \/ lastOp = "stop" /\ answer \in StopNoResponse

\* C5: in resume, pause and stop, a request without response is followed by
\* aria2Version and, if that did not respond, by aria2Disconnected exactly
\* once and a notification; an answered request by neither.  For stop this
\* covers None, False and the string 'None'.
NoResponseChecksAria2 ==
    (lastOp \in {"resume", "pause", "stop"} /\ answer # Unset) =>
        IF noResponse
        THEN /\ Count(calls, "aria2Version") = 1
             /\ version_answer = DidNotRespond =>
                    /\ Count(calls, "aria2Disconnected") = 1
                    /\ Count(calls, "notifySend") >= 1
        ELSE /\ Count(calls, "aria2Version") = 0
             /\ Count(calls, "aria2Disconnected") = 0

====
